---- MODULE Spec2Model ----
(***************************************************************************)
(* Model of splose_export_to_flat_csv.py: the two-pass conversion of a     *)
(* table whose payload column holds a serialized form submission into a    *)
(* flat table with one column per question title.                          *)
(*                                                                         *)
(* Text (a Python str) is a sequence of one-character strings, so that     *)
(* whitespace normalisation, tag stripping and the " #k" suffix are        *)
(* computed and two texts are equal exactly when they are spelled alike.   *)
(* A parsed JSON value is a record with a tag: null, str, int, bool, list  *)
(* or dict; Python's None and a missing key are both the null value.       *)
(***************************************************************************)
EXTENDS Integers, Sequences, FiniteSets, TLC

(***************************************************************************)
(* Bounds of the model.                                                    *)
(***************************************************************************)
MaxRows == 2
MaxQs == 3
MaxOpts == 2

(***************************************************************************)
(* Literal texts of the program.                                           *)
(***************************************************************************)
S_Statement == <<"S", "t", "a", "t", "e", "m", "e", "n", "t">>
S_ShortAnswer == <<"S", "h", "o", "r", "t", " ", "a", "n", "s", "w", "e", "r">>
S_Paragraph == <<"P", "a", "r", "a", "g", "r", "a", "p", "h">>
S_YesNo == <<"Y", "e", "s", "/", "N", "o">>
S_PatientName == <<"P", "a", "t", "i", "e", "n", "t", " ", "n", "a", "m", "e">>
S_DateOfBirth == <<"D", "a", "t", "e", " ", "o", "f", " ", "b", "i", "r", "t", "h">>
S_Checkboxes == <<"C", "h", "e", "c", "k", "b", "o", "x", "e", "s">>
S_MultipleChoice == <<"M", "u", "l", "t", "i", "p", "l", "e", " ", "c", "h", "o", "i", "c", "e">>
S_Signature == <<"S", "i", "g", "n", "a", "t", "u", "r", "e">>
S_signed == <<"s", "i", "g", "n", "e", "d">>
S_not_signed == <<"n", "o", "t", " ", "s", "i", "g", "n", "e", "d">>
S_Other == <<"O", "t", "h", "e", "r">>
S_NA == <<"(", "N", "/", "A", ")">>
S_NoResponse == <<"(", "N", "o", "R", "e", "s", "p", "o", "n", "s", "e", ")">>
S_untitled == <<"(", "u", "n", "t", "i", "t", "l", "e", "d", ")">>
S_untitled_colon == <<"(", "u", "n", "t", "i", "t", "l", "e", "d", ":">>
S_Title == <<"T", "i", "t", "l", "e">>
S_ClientName == <<"C", "l", "i", "e", "n", "t", "N", "a", "m", "e">>
S_Json == <<"J", "s", "o", "n">>
S_lt == <<"&", "l", "t", ";">>
S_gt == <<"&", "g", "t", ";">>
S_amp == <<"&", "a", "m", "p", ";">>
S_sep == <<";", " ">>

(***************************************************************************)
(* Python str primitives on texts.                                         *)
(***************************************************************************)
\* The characters the regex class \s and str.strip() treat as whitespace.
Whitespace == {" ", "\t", "\n", "\r"}

RECURSIVE lstrip(_)
lstrip(s) ==
    IF s # <<>> /\ Head(s) \in Whitespace THEN lstrip(Tail(s)) ELSE s

RECURSIVE rstrip(_)
rstrip(s) ==
    IF s # <<>> /\ s[Len(s)] \in Whitespace
    THEN rstrip(SubSeq(s, 1, Len(s) - 1))
    ELSE s

strip(s) == rstrip(lstrip(s))

\* WS_REGEX.sub(" ", s): every maximal run of whitespace becomes one space.
RECURSIVE ws_sub(_)
ws_sub(s) ==
    IF s = <<>> THEN <<>>
    ELSE IF Head(s) \in Whitespace
         THEN <<" ">> \o ws_sub(lstrip(s))
         ELSE <<Head(s)>> \o ws_sub(Tail(s))

\* The position of the first ">" of s at or after position i, 0 when none.
RECURSIVE find_gt(_, _)
find_gt(s, i) ==
    IF i > Len(s) THEN 0
    ELSE IF s[i] = ">" THEN i
    ELSE find_gt(s, i + 1)

\* TAG_REGEX.sub(" ", s) for the pattern <[^>]+> : scanning from the left, a
\* "<" followed by at least one character other than ">" and then a ">" is
\* replaced, with everything between, by one space.
RECURSIVE tag_sub(_)
tag_sub(s) ==
    IF s = <<>> THEN <<>>
    ELSE IF Head(s) = "<" /\ find_gt(s, 2) > 2
         THEN <<" ">> \o tag_sub(SubSeq(s, find_gt(s, 2) + 1, Len(s)))
         ELSE <<Head(s)>> \o tag_sub(Tail(s))

HasPrefix(s, p) == Len(s) >= Len(p) /\ SubSeq(s, 1, Len(p)) = p

\* html.unescape(s), for the named references &lt; &gt; and &amp;.
RECURSIVE unescape(_)
unescape(s) ==
    IF s = <<>> THEN <<>>
    ELSE IF HasPrefix(s, S_lt) THEN <<"<">> \o unescape(SubSeq(s, 5, Len(s)))
    ELSE IF HasPrefix(s, S_gt) THEN <<">">> \o unescape(SubSeq(s, 5, Len(s)))
    ELSE IF HasPrefix(s, S_amp) THEN <<"&">> \o unescape(SubSeq(s, 6, Len(s)))
    ELSE <<Head(s)>> \o unescape(Tail(s))

\* "; ".join(xs)
RECURSIVE join(_)
join(xs) ==
    IF xs = <<>> THEN <<>>
    ELSE IF Len(xs) = 1 THEN xs[1]
    ELSE xs[1] \o S_sep \o join(Tail(xs))

\* " ".join(xs)
RECURSIVE join_space(_)
join_space(xs) ==
    IF xs = <<>> THEN <<>>
    ELSE IF Len(xs) = 1 THEN xs[1]
    ELSE xs[1] \o <<" ">> \o join_space(Tail(xs))

Digit(d) == <<"0", "1", "2", "3", "4", "5", "6", "7", "8", "9">>[d + 1]

\* str(n) of a natural number.
RECURSIVE decimal(_)
decimal(n) ==
    IF n < 10 THEN <<Digit(n)>> ELSE decimal(n \div 10) \o <<Digit(n % 10)>>

\* f"{n:02d}" of a natural number.
decimal02(n) == IF n < 10 THEN <<"0">> \o decimal(n) ELSE decimal(n)

(***************************************************************************)
(* Parsed JSON values and Python's dynamic checks on them.                 *)
(***************************************************************************)
JNull == [tag |-> "null"]
JStr(s) == [tag |-> "str", s |-> s]
JInt(n) == [tag |-> "int", n |-> n]
JBool(b) == [tag |-> "bool", b |-> b]
JList(xs) == [tag |-> "list", xs |-> xs]
JDict(f) == [tag |-> "dict", f |-> f]

\* d.get(k) of a dict: the null value when the key is missing.
Get(d, k) == IF k \in DOMAIN d.f THEN d.f[k] ELSE JNull

\* bool(v)
Truthy(v) ==
    CASE v.tag = "null" -> FALSE
      [] v.tag = "str" -> v.s # <<>>
      [] v.tag = "int" -> v.n # 0
      [] v.tag = "bool" -> v.b
      [] v.tag = "list" -> v.xs # <<>>
      [] v.tag = "dict" -> DOMAIN v.f # {}

\* v or ""
or_empty(v) == IF Truthy(v) THEN v ELSE JStr(<<>>)

\* v is True, v is False
IsTrue(v) == v.tag = "bool" /\ v.b
IsFalse(v) == v.tag = "bool" /\ ~v.b

\* str(v) of a scalar
py_str(v) ==
    CASE v.tag = "str" -> v.s
      [] v.tag = "int" -> decimal(v.n)
      [] v.tag = "bool" -> IF v.b THEN <<"T", "r", "u", "e">>
                                  ELSE <<"F", "a", "l", "s", "e">>

\* The outcome of a call: a value, or an exception that nothing catches.
Ok(x) == [ok |-> TRUE, v |-> x]
Raised == [ok |-> FALSE]

\* The statements after a call: they run on the value it returned, and an
\* exception of the call propagates.
Then(r, F(_)) == IF r.ok THEN F(r.v) ELSE Raised

(***************************************************************************)
(* Text Normalizer.                                                        *)
(***************************************************************************)
\* norm_title(s): (s or "").strip() needs a str, then whitespace runs collapse.
norm_title(v) ==
    LET t == or_empty(v)
    IN  IF t.tag = "str" THEN Ok(ws_sub(strip(t.s))) ELSE Raised

\* clean_text(s): total; None is the empty text.
clean_text(v) ==
    IF v.tag = "null" THEN <<>>
    ELSE strip(ws_sub(tag_sub(unescape(py_str(v)))))

(***************************************************************************)
(* Answer Extractor.                                                       *)
(***************************************************************************)
\* o.get("label") or o.get("value") or ""
label_or_value(o) ==
    IF Truthy(Get(o, "label")) THEN Get(o, "label")
    ELSE IF Truthy(Get(o, "value")) THEN Get(o, "value")
    ELSE JStr(<<>>)

\* A test of truthiness in place of the test of identity.
is_checked_truthy(o) == Truthy(Get(o, "checked"))

\* "o.get('checked') is True" of extract_checkboxes
is_checked(o) == IsTrue(Get(o, "checked"))

\* One turn of the loop of extract_checkboxes: what option o appends to picked.
picked_of(o) ==
    IF o.tag = "dict" /\ is_checked(o)
    THEN LET c == label_or_value(o)
         IN  IF c.tag # "str" THEN Raised
             ELSE LET val0 == strip(c.s)
                      val == IF val0 = <<>> /\ IsTrue(Get(o, "customChoice"))
                             THEN S_Other
                             ELSE val0
                  IN  Ok(IF val # <<>> THEN <<clean_text(JStr(val))>> ELSE <<>>)
    ELSE Ok(<<>>)

RECURSIVE picked_loop(_, _)
picked_loop(opts, picked) ==
    IF opts = <<>> THEN Ok(picked)
    ELSE Then(picked_of(Head(opts)),
              LAMBDA vals : picked_loop(Tail(opts), picked \o vals))

\* extract_checkboxes(q): None, or the picked values joined with "; ".
extract_checkboxes(q) ==
    LET opts == Get(q, "checkboxes")
    IN  IF opts.tag # "list" THEN Ok(JNull)
        ELSE Then(picked_loop(opts.xs, <<>>),
                  LAMBDA picked :
                      Ok(IF picked # <<>> THEN JStr(join(picked)) ELSE JNull))

\* "txt if txt else None"
text_or_none(txt) == IF txt # <<>> THEN JStr(txt) ELSE JNull

\* isinstance(v, int): a bool is an int, True is 1 and False is 0.
IsInt(v) == v.tag \in {"int", "bool"}
IntVal(v) == IF v.tag = "bool" THEN (IF v.b THEN 1 ELSE 0) ELSE v.n

\* The generic rule at the end of extract_answer.
RECURSIVE generic_loop(_, _, _)
generic_loop(q, keys, txt) ==
    IF keys = <<>> THEN txt
    ELSE LET c == clean_text(or_empty(Get(q, Head(keys))))
         IN  generic_loop(q, Tail(keys), IF c # <<>> THEN Append(txt, c) ELSE txt)

\* extract_answer(q, other_interested_keys): None or the display text.
extract_answer(q, other_interested_keys) ==
    LET ty == norm_title(Get(q, "type"))
        qtype == ty.v
        answerText == Get(q, "answerText")
    IN  IF ~ty.ok THEN Raised
        ELSE IF qtype = S_Statement THEN Ok(JNull)
        ELSE IF qtype \in {S_ShortAnswer, S_Paragraph, S_YesNo}
        THEN Ok(text_or_none(IF answerText.tag = "str"
                              THEN clean_text(answerText) ELSE <<>>))
        ELSE IF qtype = S_PatientName
        THEN LET first == clean_text(or_empty(Get(q, "firstName")))
                 last == clean_text(or_empty(Get(q, "lastName")))
             IN  Ok(text_or_none(join_space(SelectSeq(<<first, last>>,
                                                      LAMBDA x : x # <<>>))))
        ELSE IF qtype = S_DateOfBirth
        THEN LET y == Get(q, "birthYear")
                 m == Get(q, "birthMonth")
                 d == Get(q, "birthDay")
             IN  IF IsInt(y) /\ IsInt(m) /\ IsInt(d)
                 THEN Ok(JStr(decimal02(IntVal(d)) \o <<"/">>
                              \o decimal02(IntVal(m) + 1) \o <<"/">>
                              \o decimal(IntVal(y))))
                 ELSE Ok(text_or_none(clean_text(or_empty(answerText))))
        ELSE IF qtype \in {S_Checkboxes, S_MultipleChoice}
        THEN Then(extract_checkboxes(q),
                  LAMBDA picked :
                      IF Truthy(picked) THEN Ok(picked)
                      ELSE Ok(text_or_none(clean_text(or_empty(answerText)))))
        ELSE IF qtype = S_Signature
        THEN LET sig == Get(q, "signature")
             IN  Ok(JStr(IF sig.tag = "str" /\ strip(sig.s) # <<>>
                         THEN S_signed ELSE S_not_signed))
        ELSE LET txt == generic_loop(q, <<"answerText">> \o other_interested_keys,
                                     <<>>)
             IN  Ok(IF txt # <<>> THEN JStr(join(txt)) ELSE JNull)

(***************************************************************************)
(* Title Deduplicator.                                                     *)
(***************************************************************************)
\* f"{candidate} #{k}"
suffixed(candidate, k) == candidate \o <<" ", "#">> \o decimal(k)

\* A loop that adds one suffix and stops.
suffix_once(final, candidate, k, seen) ==
    IF final \in seen THEN suffixed(candidate, k) ELSE final

\* The while loop of unique_title: final is tried, then candidate #k, #k+1, ...
RECURSIVE suffix_loop(_, _, _, _)
suffix_loop(final, candidate, k, seen) ==
    IF final \in seen
    THEN suffix_loop(suffixed(candidate, k), candidate, k + 1, seen)
    ELSE final

\* unique_title with the suffixes starting at 3.
unique_title_from3(base, q, seen) ==
    IF base # <<>> /\ base \notin seen
    THEN Ok([final |-> base, seen |-> seen \cup {base}])
    ELSE LET id == or_empty(Get(q, "id"))
         IN  IF id.tag # "str" THEN Raised
             ELSE LET qid == strip(id.s)
                      candidate ==
                          IF base = <<>>
                          THEN (IF qid # <<>>
                                THEN S_untitled_colon \o qid \o <<")">>
                                ELSE S_untitled)
                          ELSE base
                      final == suffix_loop(candidate, candidate, 3, seen)
                  IN  Ok([final |-> final, seen |-> seen \cup {final}])

\* unique_title(base, q, seen): the final title, and seen with it added.
unique_title(base, q, seen) ==
    IF base # <<>> /\ base \notin seen
    THEN Ok([final |-> base, seen |-> seen \cup {base}])
    ELSE LET id == or_empty(Get(q, "id"))
         IN  IF id.tag # "str" THEN Raised
             ELSE LET qid == strip(id.s)
                      candidate ==
                          IF base = <<>>
                          THEN (IF qid # <<>>
                                THEN S_untitled_colon \o qid \o <<")">>
                                ELSE S_untitled)
                          ELSE base
                      final == suffix_loop(candidate, candidate, 2, seen)
                  IN  Ok([final |-> final, seen |-> seen \cup {final}])

\* "for q in sec.get('questions') or []": the questions the loop visits.  A
\* section that is no dict has no get; iterating a non-empty value that is no
\* list either fails or yields keys or characters, which have no get.
questions_of(sec) ==
    IF sec.tag # "dict" THEN Raised
    ELSE LET v == Get(sec, "questions")
         IN  IF ~Truthy(v) THEN Ok(<<>>)
             ELSE IF v.tag = "list" THEN Ok(v.xs)
             ELSE Raised

\* norm_title(q.get("type") or "") == "Statement"
is_statement(q) ==
    IF q.tag # "dict" THEN Raised
    ELSE Then(norm_title(Get(q, "type")), LAMBDA ty : Ok(ty = S_Statement))

\* The body of the inner loop of collect_question_titles, on the state
\* st = [titles, seen].
collect_question(q, st) ==
    Then(is_statement(q), LAMBDA stmt :
        IF stmt THEN Ok(st)
        ELSE Then(norm_title(Get(q, "title")), LAMBDA base_title :
             Then(unique_title(base_title, q, st.seen), LAMBDA u :
                 Ok([titles |-> Append(st.titles, u.final),
                     seen |-> u.seen \cup {u.final}]))))

RECURSIVE collect_questions(_, _)
collect_questions(qs, st) ==
    IF qs = <<>> THEN Ok(st)
    ELSE Then(collect_question(Head(qs), st),
              LAMBDA st1 : collect_questions(Tail(qs), st1))

RECURSIVE collect_sections(_, _)
collect_sections(sections, st) ==
    IF sections = <<>> THEN Ok(st)
    ELSE Then(questions_of(Head(sections)), LAMBDA qs :
         Then(collect_questions(qs, st), LAMBDA st1 :
             collect_sections(Tail(sections), st1)))

\* collect_question_titles(sections): the final titles of one row, in order.
collect_question_titles(sections) ==
    Then(collect_sections(sections, [titles |-> <<>>, seen |-> {}]),
         LAMBDA st : Ok(st.titles))

(***************************************************************************)
(* flatten_questions: the Answer Map of one row.  The state of its loops   *)
(* is st = [out, seen, assigned]: out maps a final title to its answers,   *)
(* assigned lists the final titles in the order unique_title returned      *)
(* them (an observation of the run, the code keeps no such list).          *)
(***************************************************************************)
\* A test of falsiness in place of the test of identity: a question without
\* a shown flag counts as hidden.
is_hidden_falsy(q) == ~Truthy(Get(q, "shown"))

\* q.get("shown") is False
is_hidden(q) == IsFalse(Get(q, "shown"))

\* out.setdefault(final_title, []) and the append of a non-blank answer.
put_answer(out, final_title, ans) ==
    LET old == IF final_title \in DOMAIN out THEN out[final_title] ELSE <<>>
        new == IF ans.tag = "str" /\ strip(ans.s) # <<>>
               THEN Append(old, ans.s) ELSE old
    IN  [t \in DOMAIN out \cup {final_title} |->
            IF t = final_title THEN new ELSE out[t]]

\* flatten_question with the test of shown ahead of the title assignment.
flatten_question_hidden_first(q, other_interested_keys, st) ==
    Then(is_statement(q), LAMBDA stmt :
        IF stmt \/ is_hidden(q) THEN Ok(st)
        ELSE Then(norm_title(Get(q, "title")), LAMBDA base_title :
             Then(unique_title(base_title, q, st.seen), LAMBDA u :
             Then(extract_answer(q, other_interested_keys), LAMBDA ans :
                 Ok([out |-> put_answer(st.out, u.final, ans),
                     seen |-> u.seen \cup {u.final},
                     assigned |-> Append(st.assigned, u.final)])))))

\* The body of the inner loop of flatten_questions.
flatten_question(q, other_interested_keys, st) ==
    Then(is_statement(q), LAMBDA stmt :
        IF stmt THEN Ok(st)
        ELSE Then(norm_title(Get(q, "title")), LAMBDA base_title :
             Then(unique_title(base_title, q, st.seen), LAMBDA u :
                 LET st1 == [st EXCEPT !.seen = u.seen \cup {u.final},
                                       !.assigned = Append(@, u.final)]
                 IN  IF is_hidden(q) THEN Ok(st1)
                     ELSE Then(extract_answer(q, other_interested_keys),
                               LAMBDA ans :
                                   Ok([st1 EXCEPT !.out =
                                           put_answer(@, u.final, ans)])))))

RECURSIVE flatten_loop(_, _, _)
flatten_loop(qs, other_interested_keys, st) ==
    IF qs = <<>> THEN Ok(st)
    ELSE Then(flatten_question(Head(qs), other_interested_keys, st),
              LAMBDA st1 : flatten_loop(Tail(qs), other_interested_keys, st1))

RECURSIVE flatten_sections(_, _, _)
flatten_sections(sections, other_interested_keys, st) ==
    IF sections = <<>> THEN Ok(st)
    ELSE Then(questions_of(Head(sections)), LAMBDA qs :
         Then(flatten_loop(qs, other_interested_keys, st), LAMBDA st1 :
             flatten_sections(Tail(sections), other_interested_keys, st1)))

flatten_questions(sections, other_interested_keys) ==
    flatten_sections(sections, other_interested_keys,
                     [out |-> <<>>, seen |-> {}, assigned |-> <<>>])

(***************************************************************************)
(* Column-name candidates.                                                 *)
(***************************************************************************)
LIKELY_TITLE_COLS ==
    << <<"T", "i", "t", "l", "e">>,
       <<"t", "i", "t", "l", "e">>,
       <<"F", "o", "r", "m", "T", "i", "t", "l", "e">>,
       <<"f", "o", "r", "m", "T", "i", "t", "l", "e">>,
       <<"F", "o", "r", "m", " ", "N", "a", "m", "e">>,
       <<"N", "a", "m", "e">> >>

LIKELY_PAYLOAD_NAME ==
    << <<"J", "s", "o", "n">>,
       <<"j", "s", "o", "n">>,
       <<"P", "a", "y", "l", "o", "a", "d">>,
       <<"p", "a", "y", "l", "o", "a", "d">>,
       <<"R", "e", "s", "p", "o", "n", "s", "e">>,
       <<"r", "e", "s", "p", "o", "n", "s", "e">>,
       <<"F", "o", "r", "m", "J", "s", "o", "n">>,
       <<"F", "o", "r", "m", " ", "J", "S", "O", "N">>,
       <<"D", "a", "t", "a">>,
       <<"d", "a", "t", "a">>,
       <<"A", "n", "s", "w", "e", "r", "s">>,
       <<"a", "n", "s", "w", "e", "r", "s">> >>

LIKELY_DATE_COLS ==
    << <<"S", "u", "b", "m", "i", "t", "t", "t", "e", "d", " ", "A", "t">>,
       <<"S", "u", "b", "m", "i", "t", "t", "e", "d", "A", "t">>,
       <<"S", "u", "b", "m", "i", "t", "t", "e", "d", " ", "A", "t">>,
       <<"s", "u", "b", "m", "i", "t", "t", "e", "d", "A", "t">>,
       <<"s", "u", "b", "m", "i", "t", "t", "e", "d", "_", "a", "t">>,
       <<"C", "r", "e", "a", "t", "e", "d", "A", "t">>,
       <<"C", "r", "e", "a", "t", "e", "d", " ", "A", "t">>,
       <<"c", "r", "e", "a", "t", "e", "d", "A", "t">>,
       <<"c", "r", "e", "a", "t", "e", "d", "_", "a", "t">>,
       <<"D", "a", "t", "e">>,
       <<"d", "a", "t", "e">>,
       <<"T", "i", "m", "e", "s", "t", "a", "m", "p">>,
       <<"t", "i", "m", "e", "s", "t", "a", "m", "p">> >>

META_DEFAULT_COLS ==
    << <<"C", "l", "i", "e", "n", "t", "N", "a", "m", "e">>,
       <<"C", "l", "i", "e", "n", "t", " ", "N", "a", "m", "e">>,
       <<"P", "a", "t", "i", "e", "n", "t", " ", "N", "a", "m", "e">> >>

\* The preference order of parse_json_sections for a record's list.
SECTION_KEYS == <<"sections", "data", "form", "payload", "answers">>

Range(xs) == {xs[n] : n \in 1..Len(xs)}

(***************************************************************************)
(* The payloads of the modelled input tables.  A payload cell is written   *)
(* as the name of its document between its brackets, and json.loads is     *)
(* the table Documents: it fails on every other text.                      *)
(***************************************************************************)
T_A == <<"A">>
T_B == <<"B">>
T_x == <<"x">>
T_y == <<"y">>
T_id == <<"7">>

Question(type, title, more) ==
    JDict([k \in {"type", "title"} \cup DOMAIN more |->
              IF k = "type" THEN JStr(type)
              ELSE IF k = "title" THEN title
              ELSE more[k]])

Section(qs) == JDict([questions |-> JList(qs)])

\* answered, titled "A"
Q_A == Question(S_ShortAnswer, JStr(T_A), [answerText |-> JStr(T_x)])
\* answered, titled " A  " (the same base title after normalisation)
Q_A2 == Question(S_Paragraph, JStr(<<" ", "A", " ", " ">>),
                 [answerText |-> JStr(T_y), id |-> JStr(T_id)])
\* hidden and answered, titled "A"
Q_Ahidden == Question(S_ShortAnswer, JStr(T_A),
                      [answerText |-> JStr(T_x), shown |-> JBool(FALSE)])
\* a Statement titled "A"
Q_Astatement == Question(S_Statement, JStr(T_A), [answerText |-> JStr(T_x)])
\* shown and unanswered, titled "B"
Q_B == Question(S_YesNo, JStr(T_B), [answerText |-> JStr(<<" ">>)])
\* shown and unanswered, titled "Signature"
Q_Sig == Question(S_ShortAnswer, JStr(S_Signature), [shown |-> JBool(TRUE)])
\* answered, without title, with an id
Q_Untitled == Question(<<"T", "e", "x", "t">>, JNull,
                       [answerText |-> JStr(T_y), id |-> JStr(T_id)])
\* answered, titled like the meta column "ClientName"
Q_Meta == Question(S_ShortAnswer, JStr(S_ClientName),
                   [answerText |-> JStr(T_y)])
\* a title that is a number
Q_NumTitle == Question(S_ShortAnswer, JInt(5), [answerText |-> JStr(T_x)])

Doc(name) == <<"[">> \o name \o <<"]">>
Rec(name) == <<"{">> \o name \o <<"}">>

Documents ==
    (Doc(<<"1">>) :> JList(<<Section(<<Q_A>>)>>))
 @@ (Doc(<<"2">>) :> JList(<<Section(<<Q_A, Q_A2>>)>>))
 @@ (Doc(<<"3">>) :> JList(<<Section(<<Q_Ahidden, Q_B>>)>>))
 @@ (Doc(<<"4">>) :> JList(<<Section(<<Q_Astatement, Q_Sig>>),
                            Section(<<Q_Untitled>>)>>))
 @@ (Doc(<<"5">>) :> JList(<<Section(<<Q_Ahidden, Q_A>>)>>))
 @@ (Doc(<<"6">>) :> JList(<<JDict([title |-> JStr(T_A)])>>))
 @@ (Doc(<<>>) :> JList(<<>>))
 @@ (Rec(<<"1">>) :> JDict([form |-> JStr(T_x),
                           data |-> JList(<<Section(<<Q_Meta, Q_B>>)>>)]))
 @@ (Rec(<<"2">>) :> JDict([sections |-> JInt(1)]))
 @@ (Doc(<<"7">>) :> JList(<<JInt(5)>>))
 @@ (Doc(<<"8">>) :> JList(<<JDict([questions |-> JStr(T_x)])>>))
 @@ (Doc(<<"9">>) :> JList(<<Section(<<Q_A, Q_NumTitle>>)>>))

\* json.loads(s)
json_loads(s) == IF s \in DOMAIN Documents THEN Ok(Documents[s]) ELSE Raised

\* The payload cells of the modelled rows: the documents, a cell with a stray
\* closing quote, broken JSON, plain text, blank text, and a missing cell.
PayloadCells ==
    {JStr(d) : d \in DOMAIN Documents}
    \cup {JStr(<<" ">> \o Doc(<<"1">>) \o <<"\"">>),
          JStr(<<"[", "o", "o", "p", "s">>),
          JStr(<<"n", "o", "t", " ", "j", "s", "o", "n">>),
          JStr(<<" ">>),
          JNull}

(***************************************************************************)
(* Payload Parser.                                                         *)
(***************************************************************************)
\* s.strip('"')
RECURSIVE strip_quotes(_)
strip_quotes(s) ==
    IF s # <<>> /\ Head(s) = "\"" THEN strip_quotes(Tail(s))
    ELSE IF s # <<>> /\ s[Len(s)] = "\"" THEN strip_quotes(SubSeq(s, 1, Len(s) - 1))
    ELSE s

\* The first key of the preference order whose value is a list.
RECURSIVE first_list(_, _)
first_list(obj, keys) ==
    IF keys = <<>> THEN JNull
    ELSE IF Get(obj, Head(keys)).tag = "list" THEN Get(obj, Head(keys))
    ELSE first_list(obj, Tail(keys))

\* parse_json_sections(cell): the list of sections, or None.
parse_json_sections(cell) ==
    IF cell.tag # "str" THEN JNull
    ELSE LET s == strip(cell.s)
             first == json_loads(s)
             obj == IF first.ok THEN first ELSE json_loads(strip_quotes(s))
         IN  IF s = <<>> THEN JNull
             ELSE IF Head(s) \notin {"[", "{"} THEN JNull
             ELSE IF ~obj.ok THEN JNull
             ELSE IF obj.v.tag = "list" THEN obj.v
             ELSE IF obj.v.tag = "dict" THEN first_list(obj.v, SECTION_KEYS)
             ELSE JNull

(***************************************************************************)
(* Column detection and the row filter.                                    *)
(***************************************************************************)
\* r.get(c): a row maps its column names to texts; None for a missing cell.
row_get(r, c) == IF c.tag = "str" /\ c.s \in DOMAIN r THEN r[c.s] ELSE JNull

\* detect_col(fieldnames, candidates)
RECURSIVE detect_col(_, _)
detect_col(fieldnames, candidates) ==
    IF candidates = <<>> THEN JNull
    ELSE IF Head(candidates) \in Range(fieldnames) THEN JStr(Head(candidates))
    ELSE detect_col(fieldnames, Tail(candidates))

\* Step 1 of detect_json_col: a likely name whose column parses in a sample row.
RECURSIVE detect_likely(_, _, _)
detect_likely(fieldnames, sample_rows, names) ==
    IF names = <<>> THEN JNull
    ELSE IF /\ Head(names) \in Range(fieldnames)
            /\ \E n \in 1..Len(sample_rows) :
                  Truthy(parse_json_sections(
                             row_get(sample_rows[n], JStr(Head(names)))))
         THEN JStr(Head(names))
         ELSE detect_likely(fieldnames, sample_rows, Tail(names))

\* Step 2 of detect_json_col: any column holding sections.
looks_like_sections(sec) ==
    /\ Truthy(sec)
    /\ sec.tag = "list"
    /\ sec.xs[1].tag = "dict"
    /\ ("questions" \in DOMAIN sec.xs[1].f \/ "title" \in DOMAIN sec.xs[1].f)

RECURSIVE detect_brute(_, _)
detect_brute(names, sample_rows) ==
    IF names = <<>> THEN JNull
    ELSE IF \E n \in 1..Len(sample_rows) :
               looks_like_sections(parse_json_sections(
                                       row_get(sample_rows[n], JStr(Head(names)))))
         THEN JStr(Head(names))
         ELSE detect_brute(Tail(names), sample_rows)

\* detect_json_col(fieldnames, sample_rows)
detect_json_col(fieldnames, sample_rows) ==
    LET likely == detect_likely(fieldnames, sample_rows, LIKELY_PAYLOAD_NAME)
    IN  IF likely # JNull THEN likely ELSE detect_brute(fieldnames, sample_rows)

\* should_keep_row(r, title_col, form_titles); form_titles is None or a list
\* of normalised titles.
should_keep_row(r, title_col, form_titles) ==
    IF form_titles.tag # "null"
    THEN IF ~Truthy(title_col) THEN FALSE
         ELSE LET v == IF title_col.s \in DOMAIN r THEN r[title_col.s]
                       ELSE JStr(<<>>)
              IN  norm_title(v).v \in Range(form_titles.xs)
    ELSE TRUE

(***************************************************************************)
(* The modelled inputs of main: config.json and the input table.           *)
(***************************************************************************)
T_F == <<"F">>
T_Bob == <<"B", "o", "b">>
T_Nope == <<"N", "o", "p", "e">>

Fields3 == <<S_ClientName, S_Title, S_Json>>
Fields2 == <<S_ClientName, S_Json>>

\* A config.json (a missing option is None) with the header of its table.
Configs ==
    { [form_titles |-> JNull, title_col |-> JNull, payload_col |-> JNull,
       meta_cols |-> JNull, other_interested_keys |-> <<>>,
       fieldnames |-> Fields3],
      [form_titles |-> JList(<<>>), title_col |-> JNull,
       payload_col |-> JStr(S_Json), meta_cols |-> JNull,
       other_interested_keys |-> <<"notes">>, fieldnames |-> Fields3],
      [form_titles |-> JList(<<JStr(<<" ", "F">>)>>), title_col |-> JNull,
       payload_col |-> JStr(S_Json),
       meta_cols |-> JList(<<JStr(S_ClientName), JStr(T_Nope)>>),
       other_interested_keys |-> <<>>, fieldnames |-> Fields3],
      [form_titles |-> JList(<<JStr(T_F)>>), title_col |-> JNull,
       payload_col |-> JNull, meta_cols |-> JNull,
       other_interested_keys |-> <<>>, fieldnames |-> Fields2] }

\* The cells of the columns other than the payload: a row of the allowed
\* form "F" with a client name, or a row of another form without one.
PlainCells ==
    { (S_ClientName :> JStr(T_Bob)) @@ (S_Title :> JStr(<<"F", " ">>)),
      (S_ClientName :> JNull) @@ (S_Title :> JStr(<<"G">>)) }

RowsOf(fieldnames) ==
    { [c \in Range(fieldnames) |-> IF c = S_Json THEN cell ELSE plain[c]] :
          plain \in PlainCells, cell \in PayloadCells }

(***************************************************************************)
(* State of the conversion.                                                *)
(***************************************************************************)
VARIABLES
    cfg,            \* config.json and the header of the input table
    rows,           \* the data rows of the input table, in source order
    pc,             \* "start", "pass1", "pass2", "done", "aborted", "crashed"
    form_titles,    \* main's form_titles
    title_col,      \* main's title_col
    json_col,       \* main's json_col
    meta_cols,      \* main's meta_cols
    i,              \* the row the running pass reads next
    union_titles,   \* main's union_titles
    seen,           \* main's seen
    out_headers,    \* the header written to the output
    output,         \* the data rows written to the output
    collected,      \* per row pass 1 took titles from: [row, titles]
    assigned,       \* per row pass 2 flattened: [row, titles, qmap]
    \* one row's title assignment, question by question
    qs,             \* the questions of the row, in section/question order
    qi,             \* the question the loops read next
    cst,            \* the loop state of collect_question_titles
    fst,            \* the loop state of flatten_questions
    \* one call of extract_answer
    aq,             \* the question
    ares            \* the outcome of the call, None before it

mainVars == <<cfg, rows, pc, form_titles, title_col, json_col, meta_cols, i,
              union_titles, seen, out_headers, output, collected, assigned>>
titleVars == <<qs, qi, cst, fst>>
answerVars == <<aq, ares>>
vars == <<mainVars, titleVars, answerVars>>

\* The variables a specification does not use keep these values.
MainIdle ==
    /\ cfg = [fieldnames |-> <<>>]
    /\ rows = <<>>
    /\ pc = "idle"
    /\ form_titles = JNull
    /\ title_col = JNull
    /\ json_col = JNull
    /\ meta_cols = <<>>
    /\ i = 1
    /\ union_titles = <<>>
    /\ seen = {}
    /\ out_headers = <<>>
    /\ output = <<>>
    /\ collected = <<>>
    /\ assigned = <<>>

TitleIdle ==
    /\ qs = <<>>
    /\ qi = 1
    /\ cst = [titles |-> <<>>, seen |-> {}]
    /\ fst = [out |-> <<>>, seen |-> {}, assigned |-> <<>>]

AnswerIdle ==
    /\ aq = JNull
    /\ ares = JNull

Init ==
    /\ cfg \in Configs
    /\ \E n \in 0..MaxRows : rows \in [1..n -> RowsOf(cfg.fieldnames)]
    /\ pc = "start"
    /\ form_titles = JNull
    /\ title_col = JNull
    /\ json_col = JNull
    /\ meta_cols = <<>>
    /\ i = 1
    /\ union_titles = <<>>
    /\ seen = {}
    /\ out_headers = <<>>
    /\ output = <<>>
    /\ collected = <<>>
    /\ assigned = <<>>
    /\ TitleIdle
    /\ AnswerIdle

(***************************************************************************)
(* main, up to the first pass.                                             *)
(***************************************************************************)
\* a or b
py_or(a, b) == IF Truthy(a) THEN a ELSE b

\* The number of rows read_sample_rows keeps, and of those detect_json_col
\* looks at.
SAMPLE_N == 50
SAMPLE_HEAD == 25

Min(a, b) == IF a < b THEN a ELSE b

\* [norm_title(t) for t in form_titles] when the option is a list, else [].
norm_form_titles(option) ==
    IF option.tag = "list"
    THEN JList([n \in 1..Len(option.xs) |-> norm_title(option.xs[n]).v])
    ELSE JList(<<>>)

\* append c to cols "if c and c in fieldnames and c not in cols"
append_col(cols, c, fieldnames) ==
    IF Truthy(c) /\ c.s \in Range(fieldnames) /\ c.s \notin Range(cols)
    THEN Append(cols, c.s) ELSE cols

\* meta_cols of main
meta_cols_of(option, fieldnames, tcol, dcol) ==
    IF option.tag = "list" /\ \A n \in 1..Len(option.xs) : option.xs[n].tag = "str"
    THEN LET names == [n \in 1..Len(option.xs) |-> option.xs[n].s]
         IN  SelectSeq(names, LAMBDA c : c \in Range(fieldnames))
    ELSE append_col(
             append_col(SelectSeq(META_DEFAULT_COLS,
                                  LAMBDA c : c \in Range(fieldnames)),
                        tcol, fieldnames),
             dcol, fieldnames)

\* Lines 364-410: the options, the detected columns, and the abort when no
\* payload column is known.
Configure ==
    /\ pc = "start"
    /\ LET sample == SubSeq(rows, 1, Min(Len(rows), SAMPLE_N))
           tcol == py_or(cfg.title_col,
                         detect_col(cfg.fieldnames, LIKELY_TITLE_COLS))
           jcol == py_or(cfg.payload_col,
                         detect_json_col(cfg.fieldnames,
                             SubSeq(sample, 1, Min(Len(sample), SAMPLE_HEAD))))
           dcol == detect_col(cfg.fieldnames, LIKELY_DATE_COLS)
       IN  /\ form_titles' = norm_form_titles(cfg.form_titles)
           /\ title_col' = tcol
           /\ json_col' = jcol
           /\ meta_cols' = meta_cols_of(cfg.meta_cols, cfg.fieldnames, tcol, dcol)
           /\ pc' = IF jcol.tag = "null" THEN "aborted" ELSE "pass1"
    /\ UNCHANGED <<cfg, rows, i, union_titles, seen, out_headers, output,
                   collected, assigned>>
    /\ UNCHANGED <<titleVars, answerVars>>

(***************************************************************************)
(* Pass 1: the union of the question titles.                               *)
(***************************************************************************)
\* add_titles without the test "t not in seen".
RECURSIVE add_titles_all(_, _)
add_titles_all(titles, st) ==
    IF titles = <<>> THEN st
    ELSE add_titles_all(Tail(titles),
             [union_titles |-> Append(st.union_titles, Head(titles)),
              seen |-> st.seen \cup {Head(titles)}])

\* "for t in titles: if t not in seen: seen.add(t); union_titles.append(t)"
\* on st = [union_titles, seen].
RECURSIVE add_titles(_, _)
add_titles(titles, st) ==
    IF titles = <<>> THEN st
    ELSE add_titles(Tail(titles),
             IF Head(titles) \notin st.seen
             THEN [union_titles |-> Append(st.union_titles, Head(titles)),
                   seen |-> st.seen \cup {Head(titles)}]
             ELSE st)

\* Lines 424-428 on row i, given the outcome of collect_question_titles: an
\* exception ends the run, else the new titles join the list.
merge_titles(titles) ==
    IF ~titles.ok
    THEN /\ pc' = "crashed"
         /\ UNCHANGED <<i, union_titles, seen, collected>>
    ELSE LET st == add_titles(titles.v, [union_titles |-> union_titles,
                                         seen |-> seen])
         IN  /\ i' = i + 1
             /\ union_titles' = st.union_titles
             /\ seen' = st.seen
             /\ collected' = Append(collected, [row |-> i, titles |-> titles.v])
             /\ pc' = pc

\* One turn of the loop of lines 416-428, on row i.
Pass1Row ==
    /\ pc = "pass1"
    /\ i <= Len(rows)
    /\ LET sections == parse_json_sections(row_get(rows[i], json_col))
       IN  IF \/ ~should_keep_row(rows[i], title_col, form_titles)
              \/ ~Truthy(sections)
           THEN /\ i' = i + 1
                /\ UNCHANGED <<pc, union_titles, seen, collected>>
           ELSE merge_titles(collect_question_titles(sections.xs))
    /\ UNCHANGED <<cfg, rows, form_titles, title_col, json_col, meta_cols,
                   out_headers, output, assigned>>
    /\ UNCHANGED <<titleVars, answerVars>>

(***************************************************************************)
(* Pass 2: the output table.                                               *)
(***************************************************************************)
\* Lines 431-434: the first loop is over, the header is written.
WriteHeader ==
    /\ pc = "pass1"
    /\ i > Len(rows)
    /\ out_headers' = meta_cols \o union_titles
    /\ pc' = "pass2"
    /\ i' = 1
    /\ UNCHANGED <<cfg, rows, form_titles, title_col, json_col, meta_cols,
                   union_titles, seen, output, collected, assigned>>
    /\ UNCHANGED <<titleVars, answerVars>>

\* d[k] = v of a dict
dict_set(d, k, v) == [x \in DOMAIN d \cup {k} |-> IF x = k THEN v ELSE d[x]]

\* out_row = {c: (r.get(c, "") or "") for c in meta_cols}
RECURSIVE meta_row(_, _, _)
meta_row(r, cols, out_row) ==
    IF cols = <<>> THEN out_row
    ELSE meta_row(r, Tail(cols),
                  dict_set(out_row, Head(cols),
                           or_empty(row_get(r, JStr(Head(cols)))).s))

\* "for t in union_titles: out_row[t] = '(N/A)'"
RECURSIVE fill_na(_, _)
fill_na(titles, out_row) ==
    IF titles = <<>> THEN out_row
    ELSE fill_na(Tail(titles), dict_set(out_row, Head(titles), S_NA))

\* The cell of title t of lines 452-461.
cell_of(t, qmap) ==
    IF t \notin DOMAIN qmap THEN S_NA
    ELSE IF qmap[t] = <<>>
         THEN (IF t = S_Signature THEN S_not_signed ELSE S_NoResponse)
         ELSE join(qmap[t])

\* The loop of lines 451-461.
RECURSIVE fill_cells(_, _, _)
fill_cells(titles, qmap, out_row) ==
    IF titles = <<>> THEN out_row
    ELSE fill_cells(Tail(titles), qmap,
                    dict_set(out_row, Head(titles), cell_of(Head(titles), qmap)))

\* writer.writerow(out_row): the cells in the order of the header.
written(out_row, headers) == [n \in 1..Len(headers) |-> out_row[headers[n]]]

\* Lines 449-463 on row i, given the outcome of flatten_questions: an
\* exception ends the run, else the row is written.
write_row(flat, out_row) ==
    IF ~flat.ok
    THEN /\ pc' = "crashed"
         /\ UNCHANGED <<i, output, assigned>>
    ELSE /\ i' = i + 1
         /\ output' = Append(output,
                [row |-> i,
                 cells |-> written(fill_cells(union_titles, flat.v.out, out_row),
                                   out_headers)])
         /\ assigned' = Append(assigned,
                [row |-> i, titles |-> flat.v.assigned, qmap |-> flat.v.out])
         /\ pc' = pc

\* One turn of the loop of lines 436-463, on row i.
Pass2Row ==
    /\ pc = "pass2"
    /\ i <= Len(rows)
    /\ LET sections == parse_json_sections(row_get(rows[i], json_col))
       IN  IF ~should_keep_row(rows[i], title_col, form_titles)
           THEN /\ i' = i + 1
                /\ UNCHANGED <<pc, output, assigned>>
           ELSE IF ~Truthy(sections)
           THEN /\ i' = i + 1
                /\ output' = Append(output,
                       [row |-> i,
                        cells |-> written(
                            fill_na(union_titles,
                                    meta_row(rows[i], meta_cols, <<>>)),
                            out_headers)])
                /\ UNCHANGED <<pc, assigned>>
           ELSE write_row(flatten_questions(sections.xs,
                                            cfg.other_interested_keys),
                          meta_row(rows[i], meta_cols, <<>>))
    /\ UNCHANGED <<cfg, rows, form_titles, title_col, json_col, meta_cols,
                   union_titles, seen, out_headers, collected>>
    /\ UNCHANGED <<titleVars, answerVars>>

\* Lines 465-468: the second loop is over.
Finish ==
    /\ pc = "pass2"
    /\ i > Len(rows)
    /\ pc' = "done"
    /\ UNCHANGED <<cfg, rows, form_titles, title_col, json_col, meta_cols, i,
                   union_titles, seen, out_headers, output, collected, assigned>>
    /\ UNCHANGED <<titleVars, answerVars>>

Next == Configure \/ Pass1Row \/ WriteHeader \/ Pass2Row \/ Finish

Spec == Init /\ [][Next]_vars

(***************************************************************************)
(* One row's title assignment, question by question: both loops,           *)
(* collect_question_titles of pass 1 and flatten_questions of pass 2, run  *)
(* over the same questions, each with its own fresh seen set.              *)
(***************************************************************************)
TitleValues ==
    { JNull,
      JStr(T_A),
      JStr(<<" ", "A">>),
      JStr(suffixed(T_A, 2)),
      JStr(S_untitled),
      JStr(S_untitled_colon \o T_id \o <<")">>) }

IdValues == { JNull, JStr(<<" ", "7", " ">>) }

TitleQuestions ==
    { Question(S_ShortAnswer, t, [id |-> d]) : t \in TitleValues, d \in IdValues }
    \cup { Question(S_ShortAnswer, JStr(<<>>), [id |-> JStr(<<" ">>)]),
           Q_Ahidden,
           Q_Astatement }

InitTitle ==
    /\ MainIdle
    /\ AnswerIdle
    /\ \E n \in 0..MaxQs : qs \in [1..n -> TitleQuestions]
    /\ qi = 1
    /\ cst = [titles |-> <<>>, seen |-> {}]
    /\ fst = [out |-> <<>>, seen |-> {}, assigned |-> <<>>]

\* One turn of the inner loops, on question qi.
AssignTitle ==
    /\ qi <= Len(qs)
    /\ LET c == collect_question(qs[qi], cst)
           f == flatten_question(qs[qi], <<>>, fst)
       IN  /\ c.ok /\ f.ok
           /\ cst' = c.v
           /\ fst' = f.v
    /\ qi' = qi + 1
    /\ UNCHANGED <<qs, mainVars, answerVars>>

NextTitle == AssignTitle

SpecTitle == InitTitle /\ [][NextTitle]_vars

(***************************************************************************)
(* One call of extract_answer on a Checkboxes / Multiple choice question.  *)
(***************************************************************************)
CheckedValues == { JBool(TRUE), JBool(FALSE), JInt(1) }
LabelValues == { JNull, JStr(<<>>), JStr(T_A), JStr(<<" ", "B", " ">>) }
ValueValues == { JNull, JStr(<<"V">>) }
CustomValues == { JNull, JBool(TRUE) }

Options ==
    { JDict([checked |-> c, label |-> l, value |-> v, customChoice |-> o]) :
          c \in CheckedValues, l \in LabelValues, v \in ValueValues,
          o \in CustomValues }
    \cup { JStr(T_A) }

CheckboxTypes == { S_Checkboxes, <<" ">> \o S_MultipleChoice }
AnswerTexts == { JNull, JStr(<<" ", "t", "<", "b", "r", ">">>) }

NotCalled == [called |-> FALSE]

InitAnswer ==
    /\ MainIdle
    /\ TitleIdle
    /\ \E ty \in CheckboxTypes, txt \in AnswerTexts :
          \/ aq = Question(ty, JStr(T_A), [answerText |-> txt])
          \/ \E n \in 0..MaxOpts : \E xs \in [1..n -> Options] :
                aq = Question(ty, JStr(T_A),
                              [checkboxes |-> JList(xs), answerText |-> txt])
    /\ ares = NotCalled

Extract ==
    /\ ares = NotCalled
    /\ ares' = [called |-> TRUE, r |-> extract_answer(aq, <<>>)]
    /\ UNCHANGED <<aq, mainVars, titleVars>>

NextAnswer == Extract

SpecAnswer == InitAnswer /\ [][NextAnswer]_vars

(***************************************************************************)
(* The claims about the conversion.                                        *)
(***************************************************************************)
Started == pc \in {"pass1", "pass2", "done"}

\* The rows 1..Len(rows) that satisfy P, in source order.
RowsWhere(P(_)) == SelectSeq([n \in 1..Len(rows) |-> n], P)

\* The row filter as the specification states it, from the configuration as
\* written: no restriction (form_titles absent or empty), or a known title
\* column whose normalised value is in the normalised allow-list.
NoRestriction ==
    cfg.form_titles.tag = "null" \/ cfg.form_titles = JList(<<>>)

TitleAllowed(n) ==
    /\ cfg.form_titles.tag = "list"
    /\ title_col.tag = "str"
    /\ \E m \in 1..Len(cfg.form_titles.xs) :
          ws_sub(strip(row_get(rows[n], title_col).s))
              = ws_sub(strip(cfg.form_titles.xs[m].s))

RowFilter(n) == NoRestriction \/ TitleAllowed(n)

\* C1: a row is kept, in both passes, if and only if no title restriction is
\* configured or its normalised title is in the allow-list of a known title
\* column; with form_titles absent or empty every row is kept.
C1_RowFilter ==
    Started =>
        \A n \in 1..Len(rows) :
            should_keep_row(rows[n], title_col, form_titles) <=> RowFilter(n)

\* C2: when the conversion finishes, the emitted data rows are the input rows
\* that satisfy the row filter, one each and in source order, whatever their
\* payload; a kept row without a usable payload has "(N/A)" in every question
\* column.
Emitted == [n \in 1..Len(output) |-> output[n].row]

Unparseable(n) == ~Truthy(parse_json_sections(row_get(rows[n], json_col)))

QuestionCell(e, m) == e.cells[Len(meta_cols) + m]

C2_RowCountParity ==
    pc = "done" =>
        /\ Emitted = RowsWhere(RowFilter)
        /\ \A n \in 1..Len(output) :
              Unparseable(output[n].row) =>
                  \A m \in 1..Len(union_titles) :
                      QuestionCell(output[n], m) = S_NA

\* The same parity against the verdicts of should_keep_row itself.
KeptByCode(n) == should_keep_row(rows[n], title_col, form_titles)

ParityWithCodeFilter ==
    pc = "done" =>
        /\ Emitted = RowsWhere(KeptByCode)
        /\ \A n \in 1..Len(output) :
              Unparseable(output[n].row) =>
                  \A m \in 1..Len(union_titles) :
                      QuestionCell(output[n], m) = S_NA

\* C5: whatever the shape of a parsed payload, both passes run to completion
\* without raising; the only abort is the missing payload column.
C5_NoPayloadIsFatal == pc # "crashed"

\* C10: in every emitted row the cell of each meta column is the source row's
\* value of that column, the empty text when missing, whatever the titles.
C10_MetaVerbatim ==
    \A n \in 1..Len(output) :
        \A m \in 1..Len(meta_cols) :
            output[n].cells[m]
                = or_empty(row_get(rows[output[n].row], JStr(meta_cols[m]))).s

(***************************************************************************)
(* The claims about the titles of one row.                                 *)
(***************************************************************************)
NoDuplicates(xs) ==
    \A m, n \in 1..Len(xs) : m # n => xs[m] # xs[n]

\* C3: within the processing of one row, in the loop of pass 1 and in the
\* loop of pass 2 alike, no two non-Statement questions receive the same
\* final column name, whatever the titles and ids.
C3_TitleUniqueness ==
    NoDuplicates(cst.titles) /\ NoDuplicates(fst.assigned)

\* A title typed as "A #2" was met and a later "A" had to move on to "A #3".
C3_Witness ==
    /\ JStr(suffixed(T_A, 2)) \in {Get(qs[n], "title") : n \in 1..Len(qs)}
    /\ suffixed(T_A, 3) \in Range(cst.titles)
    /\ suffixed(T_A, 3) \in Range(fst.assigned)

\* The naming rule of one call, for base title and trimmed id of question q,
\* the seen set before the call, the returned name and the seen set after.
NamedByRule(q, before, final, after) ==
    LET base == ws_sub(strip(or_empty(Get(q, "title")).s))
        id == strip(or_empty(Get(q, "id")).s)
        candidate == IF base # <<>> THEN base
                     ELSE IF id # <<>> THEN S_untitled_colon \o id \o <<")">>
                     ELSE S_untitled
    IN  /\ (base # <<>> /\ base \notin before) => final = base
        /\ candidate \notin before => final = candidate
        /\ candidate \in before =>
              \E n \in 2..(Cardinality(before) + 2) :
                  /\ final = suffixed(candidate, n)
                  /\ final \notin before
                  /\ \A m \in 2..(n - 1) : suffixed(candidate, m) \in before
        /\ after = before \cup {final}

IsNamed(q) == ws_sub(strip(or_empty(Get(q, "type")).s)) # S_Statement

C8_Step ==
    (qi' = qi + 1 /\ IsNamed(qs[qi])) =>
        /\ Len(cst'.titles) = Len(cst.titles) + 1
        /\ NamedByRule(qs[qi], cst.seen, cst'.titles[Len(cst'.titles)], cst'.seen)
        /\ Len(fst'.assigned) = Len(fst.assigned) + 1
        /\ NamedByRule(qs[qi], fst.seen, fst'.assigned[Len(fst'.assigned)],
                       fst'.seen)

\* C8: a non-empty base title not yet seen is returned as it is; otherwise
\* the candidate is the base title, or "(untitled:<id>)" for an empty title
\* with an id, or "(untitled)"; the result is the candidate when unseen, else
\* the candidate with " #k" for the lowest k >= 2 that is unseen; the result
\* is added to the seen set.
C8_TitleNamingRule == [][C8_Step]_vars

\* An untitled question with id 7 met a question titled "(untitled:7)" and
\* became "(untitled:7) #2", and a third question took a name as it is.
C8_Witness ==
    /\ Len(cst.titles) = 3
    /\ T_A \in Range(cst.titles)
    /\ S_untitled_colon \o T_id \o <<")">> \in Range(cst.titles)
    /\ suffixed(S_untitled_colon \o T_id \o <<")">>, 2) \in Range(cst.titles)

(***************************************************************************)
(* The claim about Checkboxes / Multiple choice.                           *)
(***************************************************************************)
\* What one option contributes: its label, else its value, else "Other" for a
\* custom choice, cleaned; the empty text when nothing.
Contribution(o) ==
    IF Truthy(Get(o, "label")) THEN clean_text(Get(o, "label"))
    ELSE IF Truthy(Get(o, "value")) THEN clean_text(Get(o, "value"))
    ELSE IF Get(o, "customChoice") = JBool(TRUE) THEN S_Other
    ELSE <<>>

ExpectedChoice(q) ==
    LET cb == Get(q, "checkboxes")
        opts == IF cb.tag = "list" THEN cb.xs ELSE <<>>
        ticked == SelectSeq(opts, LAMBDA o :
                      o.tag = "dict" /\ Get(o, "checked") = JBool(TRUE))
        values == SelectSeq([n \in 1..Len(ticked) |-> Contribution(ticked[n])],
                            LAMBDA v : v # <<>>)
        text == clean_text(Get(q, "answerText"))
    IN  IF values # <<>> THEN JStr(join(values))
        ELSE IF text # <<>> THEN JStr(text)
        ELSE JNull

\* C7: the answer of a Checkboxes / Multiple choice question is built from
\* exactly the options whose checked is the boolean true, in option order,
\* each giving its label, else its value, else "Other" for a custom choice
\* with neither, options giving nothing skipped, joined with "; "; when
\* nothing is picked it is the cleaned answerText, and absent when that is
\* empty too.
C7_CheckboxAnswer ==
    ares # NotCalled => ares.r = Ok(ExpectedChoice(aq))

\* A ticked labelled option, an option whose checked is 1 and not true, and
\* the answer is the label of the first alone.
C7_Witness ==
    /\ ares # NotCalled
    /\ Get(aq, "checkboxes").tag = "list"
    /\ Len(Get(aq, "checkboxes").xs) = 2
    /\ \A n \in 1..2 : Get(aq, "checkboxes").xs[n].tag = "dict"
    /\ Get(Get(aq, "checkboxes").xs[1], "checked") = JBool(TRUE)
    /\ Get(Get(aq, "checkboxes").xs[1], "label") = JStr(T_A)
    /\ Get(Get(aq, "checkboxes").xs[2], "checked") = JInt(1)
    /\ ares.r = Ok(JStr(T_A))

(***************************************************************************)
(* The claims about the two passes.                                        *)
(***************************************************************************)
RECURSIVE Concat(_)
Concat(xss) == IF xss = <<>> THEN <<>> ELSE Head(xss) \o Concat(Tail(xss))

\* The non-Statement questions of row n, in section/question order, for a
\* payload of records with lists of records.
RowQuestions(n) ==
    LET sections == parse_json_sections(row_get(rows[n], json_col)).xs
        listed == [m \in 1..Len(sections) |->
                      IF Get(sections[m], "questions").tag = "list"
                      THEN Get(sections[m], "questions").xs ELSE <<>>]
    IN  SelectSeq(Concat(listed), IsNamed)

IsShown(q) == Get(q, "shown") # JBool(FALSE)

\* The non-empty answers, in question order, of the questions of Q that are
\* named t in T and pass the test Counts.
AnswersOf(t, Q, T, Counts(_)) ==
    LET at == SelectSeq([j \in 1..Len(Q) |-> j],
                        LAMBDA j : T[j] = t /\ Counts(Q[j]))
        all == [m \in 1..Len(at) |->
                   extract_answer(Q[at[m]], cfg.other_interested_keys).v]
        given == SelectSeq(all, LAMBDA v : v.tag = "str" /\ strip(v.s) # <<>>)
    IN  [m \in 1..Len(given) |-> given[m].s]

Sentinel(t, answers) ==
    IF answers # <<>> THEN join(answers)
    ELSE IF t = S_Signature THEN S_not_signed
    ELSE S_NoResponse

\* The output row written for input row n.
OutputOf(n) == output[CHOOSE e \in 1..Len(output) : output[e].row = n]

\* The cells of the row of entry a of assigned follow the rule in which a
\* title counts as carried by the questions passing the test Counts.
CellsFollow(a, Counts(_)) ==
    LET Q == RowQuestions(a.row)
        T == a.titles
        e == OutputOf(a.row)
    IN  /\ Len(T) = Len(Q)
        /\ \A m \in 1..Len(union_titles) :
              LET t == union_titles[m]
              IN  QuestionCell(e, m) =
                      IF \E j \in 1..Len(Q) : T[j] = t /\ Counts(Q[j])
                      THEN Sentinel(t, AnswersOf(t, Q, T, IsShown))
                      ELSE S_NA

AnyQuestion(q) == TRUE

\* C4 as claimed: the cell of title T is "(N/A)" exactly when T was never
\* assigned to a non-Statement question of the row, a hidden question
\* included; an assigned title without a non-empty answer gives "not signed"
\* for "Signature" and "(NoResponse)" otherwise; else the answers joined.
C4_CellRuleAsClaimed ==
    \A n \in 1..Len(assigned) : CellsFollow(assigned[n], AnyQuestion)

\* C4 as amended: the cell of title T is "(N/A)" exactly when T was not
\* assigned to any non-Statement question of the row whose shown is not
\* false, so the title of a hidden question gives "(N/A)"; a title assigned
\* to a shown question without a non-empty answer gives "not signed" for
\* "Signature" and "(NoResponse)" otherwise; else the answers joined.
C4_CellRule ==
    \A n \in 1..Len(assigned) : CellsFollow(assigned[n], IsShown)

\* A finished run with a row of a hidden question, whose cell is "(N/A)", and
\* an unanswered one, and a row with an unanswered "Signature" and an answer.
C4_Witness ==
    /\ pc = "done"
    /\ \E n \in 1..Len(assigned) :
          LET Q == RowQuestions(assigned[n].row)
          IN  /\ \E j \in 1..Len(Q) : ~IsShown(Q[j])
              /\ \E m \in 1..Len(union_titles) :
                    QuestionCell(OutputOf(assigned[n].row), m) = S_NoResponse
    /\ \E n \in 1..Len(assigned) :
          \E m, j \in 1..Len(union_titles) :
              /\ QuestionCell(OutputOf(assigned[n].row), m) = S_not_signed
              /\ QuestionCell(OutputOf(assigned[n].row), j) = T_y

\* C6: the titles are assigned without regard to shown, so pass 2 assigns a
\* row's non-Statement questions the titles pass 1 collected for it, in the
\* same order; the title of a hidden question is in the Union Title List and
\* so is every key of a row's Answer Map.
C6_PassConsistency ==
    /\ \A n \in 1..Len(assigned) :
          /\ \E m \in 1..Len(collected) :
                /\ collected[m].row = assigned[n].row
                /\ collected[m].titles = assigned[n].titles
          /\ Len(assigned[n].titles) = Len(RowQuestions(assigned[n].row))
          /\ Range(assigned[n].titles) \subseteq Range(union_titles)
          /\ DOMAIN assigned[n].qmap \subseteq Range(union_titles)
    /\ pc = "done" =>
          \A m \in 1..Len(collected) :
              \E n \in 1..Len(assigned) : assigned[n].row = collected[m].row

\* A finished run with a row whose first question is hidden and whose second
\* has the same title: the titles are "A" and "A #2" in both passes.
C6_Witness ==
    /\ pc = "done"
    /\ \E n \in 1..Len(assigned) :
          LET Q == RowQuestions(assigned[n].row)
          IN  /\ Len(Q) = 2
              /\ ~IsShown(Q[1])
              /\ assigned[n].titles = <<T_A, suffixed(T_A, 2)>>
              /\ DOMAIN assigned[n].qmap = {suffixed(T_A, 2)}

\* The names of xs in the order of their first appearance.
FirstAppearances(xs) ==
    LET first == SelectSeq([n \in 1..Len(xs) |-> n],
                           LAMBDA n : \A m \in 1..(n - 1) : xs[m] # xs[n])
    IN  [j \in 1..Len(first) |-> xs[first[j]]]

IsPrefix(xs, ys) == Len(xs) <= Len(ys) /\ SubSeq(ys, 1, Len(xs)) = xs

C9_State ==
    /\ NoDuplicates(union_titles)
    /\ union_titles = FirstAppearances(
           Concat([n \in 1..Len(collected) |-> collected[n].titles]))
    /\ \A n \in 1..Len(collected) :
          /\ n > 1 => collected[n - 1].row < collected[n].row
          /\ collected[n].row < i \/ pc # "pass1"
    /\ pc \in {"pass2", "done"} =>
          /\ out_headers = meta_cols \o union_titles
          /\ \A n \in 1..Len(rows) :
                (KeptByCode(n) /\ ~Unparseable(n)) =>
                    \E m \in 1..Len(collected) : collected[m].row = n

C9_Step ==
    /\ IsPrefix(union_titles, union_titles')
    /\ pc \in {"pass2", "done"} => union_titles' = union_titles
    /\ pc' = "pass2" /\ pc # "pass2" => i > Len(rows)

\* C9: at every point of pass 1 the Union Title List has no duplicate and
\* lists the final titles of the kept, parseable rows read so far in order of
\* first appearance; names are only appended; pass 2 starts only after pass 1
\* has read every row and never changes the list, so the header is the meta
\* columns followed by the list.
C9_UnionTitleList == []C9_State /\ [][C9_Step]_vars

\* A finished run over two rows that share a title, each with a title of its
\* own as well.
C9_Witness ==
    /\ pc = "done"
    /\ Len(collected) = 2
    /\ Range(collected[1].titles) \cap Range(collected[2].titles) # {}
    /\ Range(collected[2].titles) \ Range(collected[1].titles) # {}
    /\ Len(union_titles) >= 3

====
